---- MODULE Spec2Model ----
(***************************************************************************)
(* Deferred-operation trees of dedalus/core/future.py: construction of     *)
(* Future nodes, and the recursive evaluate / attempt engine with its      *)
(* in-place argument substitution, reset and single-slot cache.            *)
(***************************************************************************)
EXTENDS Integers, Sequences, FiniteSets, TLC

\* Bounds of the model.
MaxNodes == 3
MaxCalls == 3

Nodes == 1..MaxNodes
Leaves == {"a", "b"}
Ids == {"s1", "s2"}
NoId == "None"
BasesValues == {{}, {"x"}}
Unset == {"<unset>"}

\* Values that occur as arguments, outputs and results.
NoneV == [kind |-> "None", leaf |-> "-", node |-> 0, stamp |-> 0]
Raised == [kind |-> "raise", leaf |-> "-", node |-> 0, stamp |-> 0]
Leaf(l) == [kind |-> "leaf", leaf |-> l, node |-> 0, stamp |-> 0]
Fut(n) == [kind |-> "future", leaf |-> "-", node |-> n, stamp |-> 0]
\* A Field object: stamp 0 is the field supplied as out= at construction,
\* stamp k > 0 the field allocated by node n during call number k.
FieldObj(n, k) == [kind |-> "field", leaf |-> "-", node |-> n, stamp |-> k]
\* The id an evaluation was called with, as the value of a trace event.
IdObj(id) == [kind |-> "id", leaf |-> id, node |-> 0, stamp |-> 0]

IsField(a) == a.kind \in {"leaf", "field"}
IsFuture(a) == a.kind = "future"

VARIABLES
    nodes,          \* the Future nodes constructed so far
    original_args,  \* self.original_args of each node
    args,           \* self.args of each node
    out,            \* self.out of each node
    bases,          \* self.bases of each node (Unset until __init__ assigns it)
    store_last,     \* class attribute store_last of each node's operator
    last_id,        \* self.last_id
    last_out,       \* self.last_out
    ready,          \* whether the node's arguments are in the layout it needs
    callNo,         \* number of top-level evaluate/attempt calls made
    trace,          \* events of the most recent top-level call
    last,           \* the operation that has just ended and its outcome
    heap,           \* the Future objects of the expressions being built
    query           \* the tree query that has just been answered

vars == <<nodes, original_args, args, out, bases, store_last, last_id,
          last_out, ready, callNo, trace, last, heap, query>>

\* Expression objects: the operator classes, and the store they live in.
MaxBuilt == 3
MaxObjs == MaxBuilt + 2 ^ (MaxBuilt - 1)
Objs == 1..MaxObjs
FutureFieldTypes == {"Add", "Multiply", "FieldCopy"}
FutureArrayTypes == {"ArrayOp"}
FreeObj == [type |-> "free", args |-> <<>>, original_args |-> <<>>]
NoQuery == [op |-> "none", made |-> {}]

NoOp == [op |-> "none", node |-> 0, id |-> NoId, force |-> FALSE, res |-> NoneV,
         given |-> FALSE, status |-> "-", outBases |-> {}, computed |-> {}]

Init ==
    /\ nodes = {}
    /\ original_args = [n \in Nodes |-> <<>>]
    /\ args = [n \in Nodes |-> <<>>]
    /\ out = [n \in Nodes |-> NoneV]
    /\ bases = [n \in Nodes |-> Unset]
    /\ store_last = [n \in Nodes |-> FALSE]
    /\ last_id = [n \in Nodes |-> NoId]
    /\ last_out = [n \in Nodes |-> NoneV]
    /\ ready = [n \in Nodes |-> FALSE]
    /\ callNo = 0
    /\ trace = <<>>
    /\ last = NoOp
    /\ heap = [o \in Objs |-> FreeObj]
    /\ query = NoQuery

----------------------------------------------------------------------------
\* Tree structure.

Children(n) == {m \in nodes : \E i \in 1..Len(original_args[n]) :
                                  original_args[n][i] = Fut(m)}
Roots == {n \in nodes : \A p \in nodes : n \notin Children(p)}

RECURSIVE Descendants(_)
Descendants(n) == Children(n) \cup UNION {Descendants(m) : m \in Children(n)}
Subtree(n) == {n} \cup Descendants(n)

----------------------------------------------------------------------------
\* Construction.

LeafBases(l) == IF l = "a" THEN {"x"} ELSE {}
ArgBases(a) == IF a.kind = "leaf" THEN LeafBases(a.leaf) ELSE bases[a.node]

\* The operator's rule for its output bases: the union of its arguments' bases.
_build_bases(as) == UNION {ArgBases(as[i]) : i \in 1..Len(as)}

\* The argument lists nodes are constructed with: two leaves, one subtree,
\* or two distinct subtrees.
ArgLists ==
    {<<Leaf("a"), Leaf("b")>>}
    \cup {<<Fut(m)>> : m \in Roots}
    \cup {<<Fut(p[1]), Fut(p[2])>> : p \in {q \in Roots \X Roots : q[1] < q[2]}}

\* The "Check output consistency" block of __init__ on the new instance n:
\* the exception it ends with, or "ok".
CheckOutput(n, given, ob) ==
    IF given
    THEN IF bases[n] = Unset THEN "AttributeError"
         ELSE IF ob # bases[n] THEN "ValueError"
         ELSE "ok"
    ELSE "ok"

\* Future.__init__(*as, out=o) for the next node; given tells whether out is
\* supplied, ob is o.bases, sl the store_last of the operator class.  The
\* expression is built bottom-up before its root is first evaluated.
Construct(as, given, ob, sl) ==
    LET n == Cardinality(nodes) + 1
        status == CheckOutput(n, given, ob)
    IN  /\ last = NoOp
        /\ n \in Nodes
        /\ callNo = 0
        /\ last' = [NoOp EXCEPT !.op = "construct", !.node = n, !.given = given,
                                !.status = status, !.outBases = ob,
                                !.computed = _build_bases(as)]
        /\ trace' = <<>>
        /\ UNCHANGED <<heap, query>>
        /\ IF status = "ok"
           THEN /\ nodes' = nodes \cup {n}
                /\ args' = [args EXCEPT ![n] = as]
                /\ original_args' = [original_args EXCEPT ![n] = as]
                /\ out' = [out EXCEPT ![n] = IF given THEN FieldObj(n, 0) ELSE NoneV]
                /\ bases' = [bases EXCEPT ![n] = _build_bases(as)]
                /\ store_last' = [store_last EXCEPT ![n] = sl]
                /\ last_id' = [last_id EXCEPT ![n] = NoId]
                /\ UNCHANGED <<last_out, ready, callNo>>
           ELSE UNCHANGED <<nodes, original_args, args, out, bases, store_last,
                            last_id, last_out, ready, callNo>>

----------------------------------------------------------------------------
\* Evaluation.  S is the mutable state a call works on: args, last_id,
\* last_out, ready and the trace of events.

Event(ev, n, i, ok, val) == [ev |-> ev, node |-> n, i |-> i, ok |-> ok, val |-> val]
Log(S, ev, n, i, ok, val) == [S EXCEPT !.trace = Append(@, Event(ev, n, i, ok, val))]

Pristine(S, n) == S.args[n] = original_args[n]
NoFutureArgs(S, n) == \A i \in 1..Len(S.args[n]) : ~IsFuture(S.args[n][i])

NoFail == [node |-> 0, hook |-> "none"]

reset_keep(S, n) == Log(S, "reset", n, 0, TRUE, NoneV)

\* Future.reset
reset(S, n) ==
    Log([S EXCEPT !.args[n] = original_args[n]], "reset", n, 0, TRUE, NoneV)

CheckStorage_nohit(S, n, id) ==
    IF store_last[n] /\ id # NoId
    THEN [hit |-> FALSE,
          S |-> Log([S EXCEPT !.last_id[n] = NoId, !.last_out[n] = NoneV],
                    "clear", n, 0, TRUE, S.last_out[n])]
    ELSE [hit |-> FALSE, S |-> S]

CheckStorage_noclear(S, n, id) ==
    IF store_last[n] /\ id # NoId /\ id = S.last_id[n]
    THEN [hit |-> TRUE, S |-> Log(S, "hit", n, 0, TRUE, S.last_out[n])]
    ELSE [hit |-> FALSE, S |-> S]

\* "Check storage": hit tells whether evaluate returns self.last_out at once.
CheckStorage(S, n, id) ==
    IF store_last[n] /\ id # NoId
    THEN IF id = S.last_id[n]
         THEN [hit |-> TRUE, S |-> Log(S, "hit", n, 0, TRUE, S.last_out[n])]
         ELSE [hit |-> FALSE,
               S |-> Log([S EXCEPT !.last_id[n] = NoId, !.last_out[n] = NoneV],
                         "clear", n, 0, TRUE, S.last_out[n])]
    ELSE [hit |-> FALSE, S |-> S]

\* check_conditions: the arguments are in the layout the operator needs.
check_conditions(S, n) == S.ready[n]

\* enforce_conditions: brings the arguments into the layout the operator needs.
enforce_conditions(S, n) == [S EXCEPT !.ready[n] = TRUE]

ConditionsGate_alwaysenforce(S, n, force, fail) ==
    IF fail = [node |-> n, hook |-> "enforce"]
    THEN [pass |-> FALSE, raised |-> TRUE,
          S |-> Log(S, "enforce", n, 0, FALSE, NoneV)]
    ELSE [pass |-> TRUE, raised |-> FALSE,
          S |-> Log(enforce_conditions(S, n), "enforce", n, 0, TRUE, NoneV)]

ConditionsGate_alwayscheck(S, n, force, fail) ==
    [pass |-> check_conditions(S, n), raised |-> FALSE,
     S |-> Log(S, "check", n, 0, check_conditions(S, n), NoneV)]

ConditionsGate_ignorecheck(S, n, force, fail) ==
    IF force
    THEN IF fail = [node |-> n, hook |-> "enforce"]
         THEN [pass |-> FALSE, raised |-> TRUE,
               S |-> Log(S, "enforce", n, 0, FALSE, NoneV)]
         ELSE [pass |-> TRUE, raised |-> FALSE,
               S |-> Log(enforce_conditions(S, n), "enforce", n, 0, TRUE, NoneV)]
    ELSE [pass |-> TRUE, raised |-> FALSE,
          S |-> Log(S, "check", n, 0, check_conditions(S, n), NoneV)]

\* "Check conditions unless forcing evaluation".
ConditionsGate(S, n, force, fail) ==
    IF force
    THEN IF fail = [node |-> n, hook |-> "enforce"]
         THEN [pass |-> FALSE, raised |-> TRUE,
               S |-> Log(S, "enforce", n, 0, FALSE, NoneV)]
         ELSE [pass |-> TRUE, raised |-> FALSE,
               S |-> Log(enforce_conditions(S, n), "enforce", n, 0, TRUE, NoneV)]
    ELSE [pass |-> check_conditions(S, n), raised |-> FALSE,
          S |-> Log(S, "check", n, 0, check_conditions(S, n), NoneV)]

\* "Allocate output field if necessary".
AllocateOutput(n) ==
    IF out[n] # NoneV THEN out[n] ELSE FieldObj(n, callNo + 1)

UpdateStorage_anyid(S, n, id, o) ==
    IF store_last[n]
    THEN Log([S EXCEPT !.last_id[n] = id, !.last_out[n] = o], "store", n, 0, TRUE, o)
    ELSE S

\* "Update storage".
UpdateStorage(S, n, id, o) ==
    IF store_last[n] /\ id # NoId
    THEN Log([S EXCEPT !.last_id[n] = id, !.last_out[n] = o], "store", n, 0, TRUE, o)
    ELSE S

OperateAndReturn_storefirst(S, n, id, fail) ==
    LET o == AllocateOutput(n)
        S0 == UpdateStorage(S, n, id, o)
        S1 == Log(S0, "operate", n, 0, NoFutureArgs(S0, n), o)
    IN  IF fail = [node |-> n, hook |-> "operate"]
        THEN [S |-> Log(S1, "raise", n, 0, Pristine(S1, n), NoneV), res |-> Raised]
        ELSE LET S2 == reset(S1, n)
             IN  [S |-> Log(S2, "return_out", n, 0, Pristine(S2, n), o), res |-> o]

\* Lines 175-201 of evaluate: allocate, operate, reset, store, return.
OperateAndReturn(S, n, id, fail) ==
    LET o == AllocateOutput(n)
        S1 == Log(S, "operate", n, 0, NoFutureArgs(S, n), o)
    IN  IF fail = [node |-> n, hook |-> "operate"]
        THEN [S |-> Log(S1, "raise", n, 0, Pristine(S1, n), NoneV), res |-> Raised]
        ELSE LET S2 == reset(S1, n)
                 S3 == UpdateStorage(S2, n, id, o)
             IN  [S |-> Log(S3, "return_out", n, 0, Pristine(S3, n), o), res |-> o]

RECURSIVE evaluate(_, _, _, _, _)
RECURSIVE EvalArgs(_, _, _, _, _, _, _)

EvalArgs_shortcircuit(S, n, i, id, force, fail, all_eval) ==
    IF i > Len(S.args[n])
    THEN [S |-> S, all_eval |-> all_eval, raised |-> FALSE]
    ELSE LET a == S.args[n][i]
             S1 == IF IsField(a) THEN Log(S, "require_scales", n, i, TRUE, a) ELSE S
         IN  IF IsFuture(a)
             THEN LET r == evaluate(Log(S1, "arg", n, i, TRUE, a), a.node, id, force, fail)
                  IN  IF r.res = Raised
                      THEN [S |-> r.S, all_eval |-> all_eval, raised |-> TRUE]
                      ELSE IF r.res # NoneV
                      THEN EvalArgs(Log([r.S EXCEPT !.args[n][i] = r.res],
                                        "subst", n, i, TRUE, r.res),
                                    n, i + 1, id, force, fail, all_eval)
                      ELSE [S |-> Log(r.S, "absent", n, i, TRUE, a),
                            all_eval |-> FALSE, raised |-> FALSE]
             ELSE EvalArgs(S1, n, i + 1, id, force, fail, all_eval)

\* The loop over enumerate(self.args), from index i on.
EvalArgs(S, n, i, id, force, fail, all_eval) ==
    IF i > Len(S.args[n])
    THEN [S |-> S, all_eval |-> all_eval, raised |-> FALSE]
    ELSE LET a == S.args[n][i]
             S1 == IF IsField(a) THEN Log(S, "require_scales", n, i, TRUE, a) ELSE S
         IN  IF IsFuture(a)
             THEN LET r == evaluate(Log(S1, "arg", n, i, TRUE, a), a.node, id, force, fail)
                  IN  IF r.res = Raised
                      THEN [S |-> r.S, all_eval |-> all_eval, raised |-> TRUE]
                      ELSE IF r.res # NoneV
                      THEN EvalArgs(Log([r.S EXCEPT !.args[n][i] = r.res],
                                        "subst", n, i, TRUE, r.res),
                                    n, i + 1, id, force, fail, all_eval)
                      ELSE EvalArgs(Log(r.S, "absent", n, i, TRUE, a),
                                    n, i + 1, id, force, fail, FALSE)
             ELSE EvalArgs(S1, n, i + 1, id, force, fail, all_eval)

evaluate_ignoreflag(S, n, id, force, fail) ==
    LET S0 == Log(Log(S, "call", n, 0, force, IdObj(id)),
                  "enter", n, 0, Pristine(S, n), NoneV)
        cs == CheckStorage(S0, n, id)
    IN  IF cs.hit
        THEN [S |-> Log(cs.S, "return_cached", n, 0, Pristine(cs.S, n), cs.S.last_out[n]),
              res |-> cs.S.last_out[n]]
        ELSE
        LET ar == EvalArgs(cs.S, n, 1, id, force, fail, TRUE)
        IN  IF ar.raised THEN [S |-> ar.S, res |-> Raised]
            ELSE
            LET g == ConditionsGate(ar.S, n, force, fail)
            IN  IF g.raised
                THEN [S |-> Log(g.S, "raise", n, 0, Pristine(g.S, n), NoneV),
                      res |-> Raised]
                ELSE IF ~g.pass
                THEN [S |-> Log(g.S, "return_none", n, 0, Pristine(g.S, n), NoneV),
                      res |-> NoneV]
                ELSE OperateAndReturn(g.S, n, id, fail)

\* Future.evaluate(id, force) on node n.  fail names the hook that raises
\* when it is invoked during this call, if any.
evaluate(S, n, id, force, fail) ==
    LET S0 == Log(Log(S, "call", n, 0, force, IdObj(id)),
                  "enter", n, 0, Pristine(S, n), NoneV)
        cs == CheckStorage(S0, n, id)
    IN  IF cs.hit
        THEN [S |-> Log(cs.S, "return_cached", n, 0, Pristine(cs.S, n), cs.S.last_out[n]),
              res |-> cs.S.last_out[n]]
        ELSE
        LET ar == EvalArgs(cs.S, n, 1, id, force, fail, TRUE)
        IN  IF ar.raised THEN [S |-> ar.S, res |-> Raised]
            ELSE IF ~ar.all_eval
            THEN [S |-> Log(ar.S, "return_none", n, 0, Pristine(ar.S, n), NoneV),
                  res |-> NoneV]
            ELSE
            LET g == ConditionsGate(ar.S, n, force, fail)
            IN  IF g.raised
                THEN [S |-> Log(g.S, "raise", n, 0, Pristine(g.S, n), NoneV),
                      res |-> Raised]
                ELSE IF ~g.pass
                THEN [S |-> Log(g.S, "return_none", n, 0, Pristine(g.S, n), NoneV),
                      res |-> NoneV]
                ELSE OperateAndReturn(g.S, n, id, fail)

FailChoices == {NoFail} \cup
    {[node |-> n, hook |-> h] : n \in nodes, h \in {"enforce", "operate"}}

\* A top-level call on the root of the expression that has been built; the
\* call runs to its end (return or exception) in one step.
RunCall(n, id, force, fail, opname) ==
    /\ last = NoOp
    /\ Roots = {n}
    /\ callNo < MaxCalls
    /\ \E r \in {evaluate([args |-> args, last_id |-> last_id, last_out |-> last_out,
                           ready |-> ready, trace |-> <<>>], n, id, force, fail)} :
           /\ args' = r.S.args
           /\ last_id' = r.S.last_id
           /\ last_out' = r.S.last_out
           /\ ready' = r.S.ready
           /\ trace' = r.S.trace
           /\ last' = [NoOp EXCEPT !.op = opname, !.node = n, !.id = id,
                                   !.force = force, !.res = r.res]
    /\ callNo' = callNo + 1
    /\ UNCHANGED <<nodes, original_args, out, bases, store_last, heap, query>>

\* root.evaluate(id=id), force left at its default True.
Evaluate(n, id, fail) == RunCall(n, id, TRUE, fail, "evaluate")

\* root.attempt(id=id), which is evaluate(id=id, force=False).  (Next offers
\* it no failing enforce_conditions: a hook raises only when it is invoked.)
Attempt(n, id, fail) == RunCall(n, id, FALSE, fail, "attempt")

\* The solver changes the layout of fields between calls.
Transform(n) ==
    /\ last = NoOp
    /\ n \in nodes
    /\ callNo < MaxCalls
    /\ ready' = [ready EXCEPT ![n] = ~@]
    /\ UNCHANGED <<nodes, original_args, args, out, bases, store_last, last_id,
                   last_out, callNo, trace, last, heap, query>>

\* The caller has taken the outcome of the operation that just ended.
Continue ==
    /\ last # NoOp
    /\ last' = NoOp
    /\ trace' = <<>>
    /\ UNCHANGED <<nodes, original_args, args, out, bases, store_last, last_id,
                   last_out, ready, callNo, heap, query>>

Next ==
    \/ \E as \in ArgLists, given \in BOOLEAN, ob \in BasesValues, sl \in BOOLEAN :
          Construct(as, given, ob, sl)
    \/ \E n \in Roots, id \in Ids \cup {NoId}, fail \in FailChoices :
          Evaluate(n, id, fail)
    \/ \E n \in Roots, id \in Ids \cup {NoId},
          fail \in {f \in FailChoices : f.hook # "enforce"} :
          Attempt(n, id, fail)
    \/ \E n \in nodes : Transform(n)
    \/ Continue

Spec == Init /\ [][Next]_vars

\* Only forced evaluations of the root, as in evaluate(id, force=True).
NextForced ==
    \/ \E as \in ArgLists, given \in BOOLEAN, ob \in BasesValues, sl \in BOOLEAN :
          Construct(as, given, ob, sl)
    \/ \E n \in Roots, id \in Ids \cup {NoId}, fail \in FailChoices :
          Evaluate(n, id, fail)
    \/ \E n \in nodes : Transform(n)
    \/ Continue

SpecForced == Init /\ [][NextForced]_vars

----------------------------------------------------------------------------
\* Expression trees as objects: equality, queries and substitution.  H is
\* the object store; a Future object is named by its index in it.

\* A plain number among the arguments (not an Operand), and an operator
\* class passed as a value.
Num == [kind |-> "number", leaf |-> "2", node |-> 0, stamp |-> 0]
Cls(t) == [kind |-> "class", leaf |-> t, node |-> 0, stamp |-> 0]

IsOperand(a) == a.kind \in {"leaf", "field", "future"}
Used(H) == {o \in Objs : H[o].type # "free"}
TypeOf(H, a) == IF IsFuture(a) THEN H[a.node].type ELSE a.kind

\* The results of the comparison methods.
PyTrue == "True"
PyFalse == "False"
NotImplemented == "NotImplemented"
PyBool(b) == IF b THEN PyTrue ELSE PyFalse

RECURSIVE __eq__(_, _, _)
RECURSIVE PyEq(_, _, _)

\* list.__eq__ on two args lists: same length, and each pair of elements
\* is the same object or compares equal.
ListEq(H, xs, ys) ==
    /\ Len(xs) = Len(ys)
    /\ \A i \in 1..Len(xs) : xs[i] = ys[i] \/ PyEq(H, xs[i], ys[i])

\* The expression x == y: the __eq__ of x, then the reflected one, then
\* identity when both return NotImplemented.  Leaves, numbers and classes
\* have no __eq__ of their own.
PyEq(H, x, y) ==
    LET r1 == IF IsFuture(x) THEN __eq__(H, x.node, y) ELSE NotImplemented
        r2 == IF IsFuture(y) THEN __eq__(H, y.node, x) ELSE NotImplemented
    IN  IF r1 # NotImplemented THEN r1 = PyTrue
        ELSE IF r2 # NotImplemented THEN r2 = PyTrue
        ELSE x = y

__eq___original(H, self, other) ==
    IF IsFuture(other) /\ H[other.node].type = H[self].type
    THEN PyBool(ListEq(H, H[self].original_args, H[other.node].original_args))
    ELSE NotImplemented

\* Future.__eq__
__eq__(H, self, other) ==
    IF IsFuture(other) /\ H[other.node].type = H[self].type
    THEN PyBool(ListEq(H, H[self].args, H[other.node].args))
    ELSE NotImplemented

\* Future.__ne__
__ne__(H, self, other) ==
    IF IsFuture(other) /\ H[other.node].type = H[self].type
    THEN PyBool(__eq__(H, self, other) # PyTrue)
    ELSE NotImplemented

\* self.base, the operator a node applies, as a value.
base(H, self) == Cls(H[self].type)

\* The class of a value, as isinstance sees it.
ClassOf(H, v) ==
    IF IsFuture(v) THEN H[v.node].type
    ELSE IF v.kind \in {"leaf", "field"} THEN "Field"
    ELSE IF v.kind = "class" THEN "type"
    ELSE "int"

RECURSIVE atoms(_, _, _)
RECURSIVE has(_, _, _)

\* arg.atoms(*types) on an Operand argument: a leaf gives itself when it is
\* of one of the types.
ArgAtoms(H, a, types) ==
    IF IsFuture(a) THEN atoms(H, a.node, types)
    ELSE IF ClassOf(H, a) \in types THEN {a} ELSE {}

\* Future.atoms
atoms(H, self, types) ==
    UNION {ArgAtoms(H, H[self].args[i], types) :
               i \in {j \in DOMAIN H[self].args : IsOperand(H[self].args[j])}}

\* arg.has(*vars) on an Operand argument: a leaf is asked whether it is
\* one of vars.
ArgHas(H, a, vs) ==
    IF IsFuture(a) THEN has(H, a.node, vs)
    ELSE \E v \in vs : PyEq(H, a, v)

has_rootonly(H, self, vs) ==
    IF \E v \in vs : PyEq(H, base(H, self), v)
    THEN TRUE
    ELSE \E i \in DOMAIN H[self].args :
             /\ IsOperand(H[self].args[i]) /\ ~IsFuture(H[self].args[i])
             /\ ArgHas(H, H[self].args[i], vs)

\* Future.has
has(H, self, vs) ==
    IF \E v \in vs : PyEq(H, base(H, self), v)
    THEN TRUE
    ELSE \E i \in DOMAIN H[self].args :
             IsOperand(H[self].args[i]) /\ ArgHas(H, H[self].args[i], vs)

\* Future.__init__(*as) of operator class t: the store with the new object.
NextObj(H) == CHOOSE o \in Objs \ Used(H) : \A p \in Objs \ Used(H) : o <= p
New(H, t, as) == [H EXCEPT ![NextObj(H)] = [type |-> t, args |-> as, original_args |-> as]]

RECURSIVE replace(_, _, _, _)
RECURSIVE ReplaceArgs(_, _, _, _, _, _)

\* new(*as) or self.base(*as): calling an operator class constructs a node;
\* anything else is not callable.
CallOperator(H, f, as) ==
    IF f.kind = "class"
    THEN [H |-> New(H, f.leaf, as), res |-> Fut(NextObj(H))]
    ELSE [H |-> H, res |-> Raised]

\* [arg.replace(old, new) if isinstance(arg, Operand) else arg
\*  for arg in self.args], from index i on; done holds the list so far.
\* A leaf that equals old gives new, any other leaf gives itself.
ReplaceArgs(H, self, i, old, new, done) ==
    IF i > Len(H[self].args)
    THEN [H |-> H, args |-> done, raised |-> FALSE]
    ELSE LET a == H[self].args[i]
         IN  IF IsFuture(a)
             THEN LET r == replace(H, a.node, old, new)
                  IN  IF r.res = Raised
                      THEN [H |-> r.H, args |-> done, raised |-> TRUE]
                      ELSE ReplaceArgs(r.H, self, i + 1, old, new, Append(done, r.res))
             ELSE IF IsOperand(a)
             THEN ReplaceArgs(H, self, i + 1, old, new,
                              Append(done, IF PyEq(H, a, old) THEN new ELSE a))
             ELSE ReplaceArgs(H, self, i + 1, old, new, Append(done, a))

replace_shallow(H, self, old, new) ==
    IF PyEq(H, Fut(self), old)
    THEN [H |-> H, res |-> new]
    ELSE IF PyEq(H, base(H, self), old)
    THEN CallOperator(H, new, H[self].args)
    ELSE CallOperator(H, base(H, self), H[self].args)

\* Future.replace
replace(H, self, old, new) ==
    IF PyEq(H, Fut(self), old)
    THEN [H |-> H, res |-> new]
    ELSE LET ra == ReplaceArgs(H, self, 1, old, new, <<>>)
         IN  IF ra.raised THEN [H |-> ra.H, res |-> Raised]
             ELSE IF PyEq(H, base(H, self), old)
             THEN CallOperator(ra.H, new, ra.args)
             ELSE CallOperator(ra.H, base(H, self), ra.args)

\* Operand.cast(input, domain): an Operand is returned as it is, a number
\* becomes a constant field.
OperandCast(x) == IF IsOperand(x) THEN x ELSE Leaf("const")

IsFutureField(H, v) == IsFuture(v) /\ H[v.node].type \in FutureFieldTypes

\* FieldCopy(input, domain): a FutureField node over the input.
FieldCopy(H, input) == CallOperator(H, Cls("FieldCopy"), <<input>>)

cast_alwayswrap(H, input) == FieldCopy(H, OperandCast(input))

\* FutureField.cast
cast(H, input) ==
    LET operand == OperandCast(input)
    IN  IF IsFutureField(H, operand)
        THEN [H |-> H, res |-> operand]
        ELSE FieldCopy(H, operand)

\* The argument lists expressions are built with: leaves and numbers, or
\* expressions built before (which several expressions may share).
TreeArgLists(H) ==
    {<<Leaf("a"), Leaf("b")>>, <<Leaf("a"), Num>>}
    \cup {<<Fut(m)>> : m \in Used(H)}
    \cup {<<Fut(p[1]), Fut(p[2])>> : p \in {q \in Used(H) \X Used(H) : q[1] < q[2]}}

\* The values handed to the tree queries.
Candidates(H) ==
    {Fut(o) : o \in Used(H)} \cup {Leaf("a"), Leaf("b"), Num}
    \cup {Cls(t) : t \in {"Add", "Multiply"}}

treeless == <<nodes, original_args, args, out, bases, store_last, last_id,
              last_out, ready, callNo, trace, last>>

\* An expression node of operator class t is constructed over as.
BuildNode(t, as) ==
    /\ query.op = "none"
    /\ Cardinality(Used(heap)) < MaxBuilt
    /\ heap' = New(heap, t, as)
    /\ UNCHANGED <<query, treeless>>

\* evaluate has left the output of argument i in the args of node n (the
\* substitution of line 159, not undone by an absent return).
Substitute(n, i) ==
    /\ query.op = "none"
    /\ n \in Used(heap)
    /\ i \in DOMAIN heap[n].args
    /\ IsFuture(heap[n].args[i])
    /\ heap' = [heap EXCEPT ![n].args[i] = FieldObj(heap[n].args[i].node, 1)]
    /\ UNCHANGED <<query, treeless>>

\* self.__eq__(other) and self.__ne__(other) are called.
Compare(self, other) ==
    /\ query.op = "none"
    /\ self \in Used(heap)
    /\ query' = [op |-> "compare", self |-> self, other |-> other,
                 eq |-> __eq__(heap, self, other), ne |-> __ne__(heap, self, other),
                 made |-> {}]
    /\ UNCHANGED <<heap, treeless>>

\* tree.has(X) and tree.atoms(type(X)) are called.
Has(self, X) ==
    /\ query.op = "none"
    /\ self \in Used(heap)
    /\ query' = [op |-> "has", self |-> self, X |-> X,
                 has |-> has(heap, self, {X}),
                 atoms |-> atoms(heap, self, {ClassOf(heap, X)}), made |-> {}]
    /\ UNCHANGED <<heap, treeless>>

\* tree.replace(old, new) is called, and the answer compared with the tree.
Replace(self, old, new) ==
    /\ query.op = "none"
    /\ self \in Used(heap)
    /\ \E r \in {replace(heap, self, old, new)} :
           /\ heap' = r.H
           /\ query' = [op |-> "replace", self |-> self, old |-> old, new |-> new,
                        res |-> r.res, before |-> heap,
                        eq |-> IF r.res = Raised THEN FALSE
                               ELSE PyEq(r.H, r.res, Fut(self)),
                        made |-> Used(r.H) \ Used(heap)]
    /\ UNCHANGED treeless

\* FutureField.cast(x, domain) is called, and then called on its answer.
Cast(x) ==
    /\ query.op = "none"
    /\ \E c1 \in {cast(heap, x)} : \E c2 \in {cast(c1.H, c1.res)} :
           /\ heap' = c2.H
           /\ query' = [op |-> "cast", x |-> x, res |-> c1.res, res2 |-> c2.res,
                        before |-> heap, made1 |-> Used(c1.H) \ Used(heap),
                        made |-> Used(c2.H) \ Used(heap)]
    /\ UNCHANGED treeless

\* The caller drops the answer of a query, and with it the objects the
\* query constructed.
Drop ==
    /\ query.op # "none"
    /\ query' = NoQuery
    /\ heap' = [o \in Objs |-> IF o \in query.made THEN FreeObj ELSE heap[o]]
    /\ UNCHANGED treeless

\* Expressions are built, partly evaluated, and compared.
NextEq ==
    \/ \E t \in {"Add", "Multiply"}, as \in TreeArgLists(heap) : BuildNode(t, as)
    \/ \E n \in Objs, i \in 1..2 : Substitute(n, i)
    \/ \E self \in Objs, other \in Candidates(heap) \ {Leaf("b"), Num, Cls("Multiply")} :
          Compare(self, other)
    \/ Drop

SpecEq == Init /\ [][NextEq]_vars

\* Expressions are built, partly evaluated, and searched.
NextHas ==
    \/ \E t \in {"Add", "Multiply"}, as \in TreeArgLists(heap) : BuildNode(t, as)
    \/ \E n \in Objs, i \in 1..2 : Substitute(n, i)
    \/ \E self \in Objs, X \in Candidates(heap) \ {Fut(o) : o \in Objs \ {1}} :
          Has(self, X)
    \/ Drop

SpecHas == Init /\ [][NextHas]_vars

\* Expressions are built, partly evaluated, and substituted into.
NextReplace ==
    \/ \E as \in TreeArgLists(heap) : BuildNode("Add", as)
    \/ \E n \in Objs, i \in 1..2 : Substitute(n, i)
    \/ \E self \in Objs, old \in Candidates(heap) \cup {Leaf("c")},
          new \in {Leaf("b"), Cls("Multiply")} \cup {Fut(o) : o \in Used(heap) \cap {1}} :
          Replace(self, old, new)
    \/ Drop

SpecReplace == Init /\ [][NextReplace]_vars

\* Expressions producing fields or arrays are built, and cast.
NextCast ==
    \/ \E t \in {"Add", "ArrayOp"}, as \in TreeArgLists(heap) : BuildNode(t, as)
    \/ \E x \in {Fut(o) : o \in Used(heap)} \cup {Leaf("a"), Num} : Cast(x)
    \/ Drop

SpecCast == Init /\ [][NextCast]_vars

----------------------------------------------------------------------------
\* Vocabulary of the properties.

IsCall == last.op \in {"evaluate", "attempt"}
Steps == DOMAIN trace
\* The positions of the events ev of node m in the trace of the last call.
At(ev, m) == {k \in Steps : trace[k].ev = ev /\ trace[k].node = m}
Entered(m) == At("enter", m) # {}
AllPristine == \A n \in nodes : args[n] = original_args[n]
\* The same over a given trace tr (that of the call a step makes).
AtIn(tr, ev, m) == {k \in DOMAIN tr : tr[k].ev = ev /\ tr[k].node = m}
EnteredIn(tr, m) == AtIn(tr, "enter", m) # {}
\* The names of the events of node m in tr, in order.
NamesIn(tr, m) ==
    LET own == SelectSeq(tr, LAMBDA e : e.node = m)
    IN  [k \in DOMAIN own |-> own[k].ev]
Range(f) == {f[k] : k \in DOMAIN f}
LeafOnly(m) == \A i \in DOMAIN original_args[m] : original_args[m][i].kind = "leaf"
CacheChanged(m) == last_id'[m] # last_id[m] \/ last_out'[m] # last_out[m]

----------------------------------------------------------------------------
\* C1 (as stated): whenever evaluate or attempt returns on a node, with an
\* output or with the absent result, that node's args equals original_args,
\* so every call sees args = original_args at entry.
C1_ArgsRestoredOnEveryReturn ==
    \A k \in Steps :
        trace[k].ev \in {"enter", "return_out", "return_none", "return_cached"}
            => trace[k].ok

\* C1 (amended): whenever evaluate or attempt returns an output that it has
\* just computed on a node, that node's args equals original_args, at the
\* return and when the top-level call ends.
C1_ComputedReturnRestoresArgs ==
    \A k \in Steps :
        trace[k].ev = "return_out"
            => /\ trace[k].ok
               /\ args[trace[k].node] = original_args[trace[k].node]

\* A node entered with substituted arguments left by an earlier call
\* computes an output and returns.
C1_Witness ==
    \E k1 \in Steps, k2 \in Steps :
        /\ k1 < k2
        /\ trace[k1].ev = "enter" /\ ~trace[k1].ok
        /\ trace[k2].ev = "return_out" /\ trace[k2].node = trace[k1].node

----------------------------------------------------------------------------
\* C3: for a cache-enabled node, a call with the non-null id its cache holds
\* returns the stored output object at once: no argument is evaluated, no
\* check_conditions, enforce_conditions or operate runs, nothing changes.  A
\* call that returns a computed output under a non-null id stores exactly
\* (id, output), and the stored entry stays until a call with a different
\* non-null id, so two calls with the same id return the identical object.
C3_SameIdReturnsStoredOutput ==
    [][IsCall' => \A m \in nodes :
        /\ (store_last[m] /\ last'.id # NoId /\ EnteredIn(trace', m)) =>
            /\ last_id[m] = last'.id =>
                /\ NamesIn(trace', m) = <<"call", "enter", "hit", "return_cached">>
                /\ \A k \in AtIn(trace', "return_cached", m) :
                       trace'[k].val = last_out[m]
                /\ m = last'.node => last'.res = last_out[m]
                /\ \A d \in Descendants(m) : ~EnteredIn(trace', d)
                /\ last_id'[m] = last_id[m] /\ last_out'[m] = last_out[m]
                /\ args'[m] = args[m]
            /\ \A k \in AtIn(trace', "return_out", m) :
                   last_id'[m] = last'.id /\ last_out'[m] = trace'[k].val
        /\ CacheChanged(m) => last'.id \notin {NoId, last_id[m]}
      ]_vars

\* A second or later call has found its id in the cache of a node and has
\* returned the stored output.
C3_Witness ==
    /\ IsCall /\ callNo >= 2
    /\ \E k \in Steps : trace[k].ev = "return_cached" /\ trace[k].val.kind = "field"
                        /\ last_out[trace[k].node] = trace[k].val

\* C4: for a cache-enabled node holding an entry for id1, evaluate(id2) with
\* non-null id2 # id1 clears the entry before anything else; when it returns
\* an output it has resolved every deferred argument, passed the layout gate
\* and run operate, and the cache holds (id2, new output); otherwise the
\* cache stays empty.  No call whose id the cache does not hold returns the
\* stored output: it recomputes.
C4_OtherIdInvalidatesAndRecomputes ==
    [][IsCall' => \A m \in nodes :
        (store_last[m] /\ last'.id \notin {NoId, last_id[m]} /\ EnteredIn(trace', m)) =>
            LET names == NamesIn(trace', m)
                outs == AtIn(trace', "return_out", m)
            IN  /\ Len(names) >= 3 /\ names[3] = "clear"
                /\ "hit" \notin Range(names) /\ "return_cached" \notin Range(names)
                /\ last_id[m] # NoId => last_id'[m] # last_id[m]
                /\ IF outs # {}
                   THEN \A k \in outs :
                        /\ \A i \in DOMAIN args[m] : IsFuture(args[m][i]) =>
                               \E j \in AtIn(trace', "arg", m) :
                                   trace'[j].i = i /\ j < k
                        /\ \E g \in AtIn(trace', "enforce", m) \cup AtIn(trace', "check", m) :
                           \E o \in AtIn(trace', "operate", m) :
                               /\ g < o /\ o < k
                               /\ \A j \in AtIn(trace', "arg", m) : j < g
                        /\ trace'[k].val.stamp = callNo'
                        /\ trace'[k].val # last_out[m]
                        /\ last_id'[m] = last'.id /\ last_out'[m] = trace'[k].val
                   ELSE last_id'[m] = NoId /\ last_out'[m] = NoneV
      ]_vars

\* In a third or later call a node dropped a stored output for another id
\* and stored the output it computed.
C4_Witness ==
    /\ IsCall /\ callNo >= 3
    /\ \E k \in Steps :
        /\ trace[k].ev = "clear" /\ trace[k].val.kind = "field"
        /\ At("store", trace[k].node) # {}
        /\ last_id[trace[k].node] = last.id

\* C5 (as stated): a node's cache slot changes only in an evaluate call with
\* force=True that returns an output.
C5_CacheChangesOnlyOnForcedSuccess ==
    [][\A m \in Nodes : CacheChanged(m) =>
          /\ last'.op = "evaluate" /\ last'.force
          /\ AtIn(trace', "return_out", m) # {}
      ]_vars

\* C5 (amended): a node's cache slot changes only in an evaluate or attempt
\* call that reaches the node, cache-enabled, with a non-null id other than
\* the stored one: it is emptied at entry and, when the node returns a
\* computed output (forced or not), set to (id, output).
C5_CacheChangesOnlyOnMiss ==
    [][\A m \in Nodes : CacheChanged(m) =>
          /\ IsCall' /\ store_last[m]
          /\ last'.id \notin {NoId, last_id[m]}
          /\ EnteredIn(trace', m)
          /\ IF AtIn(trace', "return_out", m) # {}
             THEN \A k \in AtIn(trace', "return_out", m) :
                      last_id'[m] = last'.id /\ last_out'[m] = trace'[k].val
             ELSE last_id'[m] = NoId /\ last_out'[m] = NoneV
      ]_vars

\* An attempt has stored its output, and another node's entry was emptied by
\* a call in which that node returned absent.
C5_Witness ==
    /\ last.op = "attempt"
    /\ \E k \in Steps : trace[k].ev = "store"
    /\ \E k \in Steps :
        /\ trace[k].ev = "clear" /\ trace[k].val.kind = "field"
        /\ At("return_none", trace[k].node) # {}

----------------------------------------------------------------------------
\* C6: attempt(id) on the root never invokes enforce_conditions on any node:
\* every recursive evaluation is made with force=False, and the layout of no
\* node's arguments changes, whatever the attempt returns.
C6_AttemptNeverEnforces ==
    [][last'.op = "attempt" =>
          /\ ready' = ready
          /\ \A k \in DOMAIN trace' :
                /\ trace'[k].ev # "enforce"
                /\ trace'[k].ev = "call" => ~trace'[k].ok
      ]_vars

\* An attempt has recursed into a subtree and met conditions that do not hold.
C6_Witness ==
    /\ last.op = "attempt"
    /\ \E k \in Steps : trace[k].ev = "arg"
    /\ \E k \in Steps : trace[k].ev = "check" /\ ~trace[k].ok

\* C7 (as stated): while the check_conditions of some node of the tree is
\* false, every attempt on the root returns absent.
C7_AbsentWhileSomeNodeNotReady ==
    (last.op = "attempt" /\ \E m \in Subtree(last.node) : ~ready[m])
        => last.res \in {NoneV, Raised}

\* C7 (amended): an attempt on the root returns absent (unless operate
\* raises) when the check_conditions of some node it evaluates is false; when
\* the conditions of all nodes hold, it does not return absent, whether or
\* not a forced evaluation was ever made.
C7_AbsentIffEvaluatedNodeNotReady ==
    last.op = "attempt" =>
        /\ (\E k \in Steps : trace[k].ev = "check" /\ ~trace[k].ok)
               => last.res \in {NoneV, Raised}
        /\ (\A m \in Subtree(last.node) : ready[m]) => last.res # NoneV

\* An attempt returns an output on a tree that still holds the substitutions
\* of an earlier attempt that returned absent.
C7_Witness ==
    /\ last.op = "attempt" /\ last.res.kind = "field"
    /\ \A m \in Subtree(last.node) : ready[m]
    /\ \E k \in Steps : trace[k].ev = "enter" /\ ~trace[k].ok

\* C8: a node whose arguments are all leaves, evaluated without a cache hit:
\* with force=False it runs check_conditions once, never enforce_conditions,
\* and returns an output iff check_conditions is true; with force=True it
\* runs enforce_conditions once, never check_conditions, then operate, and
\* returns an output even when check_conditions was false.
C8_LeafNodeGate ==
    [][IsCall' => \A m \in nodes :
        (LeafOnly(m) /\ EnteredIn(trace', m) /\ AtIn(trace', "hit", m) = {}) =>
            LET force == \A k \in AtIn(trace', "call", m) : trace'[k].ok
                raisedAt == AtIn(trace', "raise", m) # {}
                returned == AtIn(trace', "return_out", m) # {}
                enforces == AtIn(trace', "enforce", m)
                checks == AtIn(trace', "check", m)
                operates == AtIn(trace', "operate", m)
            IN  IF force
                THEN /\ Cardinality(enforces) = 1 /\ checks = {}
                     /\ \A e \in enforces : trace'[e].ok =>
                            /\ Cardinality(operates) = 1
                            /\ \A o \in operates : e < o
                     /\ ~raisedAt => returned
                ELSE /\ enforces = {} /\ Cardinality(checks) = 1
                     /\ returned => Cardinality(operates) = 1
                     /\ ~raisedAt => (returned <=> ready[m])
      ]_vars

\* A forced evaluation of a node with only leaf arguments has enforced the
\* conditions and returned an output.
C8_Witness ==
    /\ last.op = "evaluate" /\ LeafOnly(last.node) /\ last.res.kind = "field"
    /\ At("enforce", last.node) # {} /\ At("operate", last.node) # {}

\* C9: evaluate(id, force=True) never returns the absent result, from any
\* state earlier calls have left; the absent result is returned only under
\* force=False, at the root and at every node beneath it.
C9_ForcedNeverAbsent ==
    /\ last.op = "evaluate" => last.res # NoneV
    /\ (IsCall /\ last.res = NoneV) => last.op = "attempt"
    /\ \A k \in Steps : trace[k].ev = "return_none" =>
           \A c \in At("call", trace[k].node) : ~trace[c].ok

\* A forced evaluation returns an output on a tree that earlier calls left
\* with substituted arguments.
C9_Witness ==
    /\ last.op = "evaluate" /\ last.res.kind = "field" /\ callNo >= 2
    /\ \E k \in Steps : trace[k].ev = "enter" /\ ~trace[k].ok

\* C10: constructing a node with a supplied out succeeds when out.bases
\* equals the bases computed from the arguments by _build_bases, and fails
\* with ValueError when they differ.
C10_OutBasesComparedWithComputed ==
    (last.op = "construct" /\ last.given) =>
        IF last.outBases = last.computed
        THEN last.status = "ok"
        ELSE last.status = "ValueError"

----------------------------------------------------------------------------
\* The structure of a value: for a Future its operator type and the
\* structures of its current args, for anything else the object itself.
RECURSIVE Shape(_, _)
Shape(H, v) ==
    IF IsFuture(v)
    THEN [t |-> H[v.node].type, v |-> NoneV,
          as |-> [i \in DOMAIN H[v.node].args |-> Shape(H, H[v.node].args[i])]]
    ELSE [t |-> "object", v |-> v, as |-> <<>>]

SameType(H, self, other) == IsFuture(other) /\ H[other.node].type = H[self].type
ArgsEqualElementwise(H, xs, ys) ==
    /\ Len(xs) = Len(ys)
    /\ \A i \in 1..Len(xs) : Shape(H, xs[i]) = Shape(H, ys[i])

\* C11: A == B is true iff A and B have the same operator type and their
\* current args are equal element by element; when the types differ both
\* == and != yield NotImplemented, never False; for nodes of the same type
\* A != B is the negation of A == B.
C11_EqualityIsTypeAndCurrentArgs ==
    query.op = "compare" =>
        IF SameType(heap, query.self, query.other)
        THEN /\ query.eq = PyBool(ArgsEqualElementwise(heap, heap[query.self].args,
                                                       heap[query.other.node].args))
             /\ query.ne = PyBool(query.eq = PyFalse)
        ELSE query.eq = NotImplemented /\ query.ne = NotImplemented

\* Two distinct nodes of the same type, constructed over equal arguments,
\* compare unequal because evaluate has left an output in the args of one.
C11_Witness ==
    /\ query.op = "compare" /\ query.eq = PyFalse /\ query.ne = PyTrue
    /\ SameType(heap, query.self, query.other) /\ query.other.node # query.self
    /\ ArgsEqualElementwise(heap, heap[query.self].original_args,
                            heap[query.other.node].original_args)

----------------------------------------------------------------------------
\* The Future nodes of the tree of n: n and the nodes reached through the
\* current args.
RECURSIVE TreeNodes(_, _)
TreeNodes(H, n) ==
    {n} \cup UNION {TreeNodes(H, H[n].args[i].node) :
                        i \in {j \in DOMAIN H[n].args : IsFuture(H[n].args[j])}}
IsLeafValue(v) == v.kind \in {"leaf", "field"}

\* C12 (as stated): tree.has(X) is true iff X is the operator of the root
\* node or X is a leaf that belongs to tree.atoms(type(X)).
C12_HasIffRootOperatorOrAtom ==
    query.op = "has" =>
        (query.has <=> \/ query.X = base(heap, query.self)
                       \/ IsLeafValue(query.X) /\ query.X \in query.atoms)

\* C12 (amended): tree.has(X) is true iff X is the operator of the root or
\* of a deferred node beneath it, or X is a leaf that belongs to
\* tree.atoms(type(X)).
C12_HasIffSomeOperatorOrAtom ==
    query.op = "has" =>
        (query.has <=> \/ \E m \in TreeNodes(heap, query.self) : query.X = base(heap, m)
                       \/ IsLeafValue(query.X) /\ query.X \in query.atoms)

\* has finds the operator of a node beneath the root, which is not the
\* operator of the root.
C12_Witness ==
    /\ query.op = "has" /\ query.has
    /\ query.X.kind = "class" /\ query.X # base(heap, query.self)

----------------------------------------------------------------------------
\* old occurs in the tree of n: as a subtree, as an argument (a leaf), or
\* as the operator of a node.
Occurs(H, n, old) ==
    \E m \in TreeNodes(H, n) :
        \/ PyEq(H, Fut(m), old)
        \/ old = base(H, m)
        \/ \E i \in DOMAIN H[m].args : H[m].args[i] = old

\* C13: when old occurs nowhere in the tree, tree.replace(old, new) returns
\* a newly constructed tree (every node of it is a new object) that is ==
\* to the original and has its structure, and the original tree's args, as
\* those of every object that existed, are unchanged; when old equals the
\* whole tree, replace returns new itself and constructs nothing.
C13_ReplaceAbsentRebuildsEqualTree ==
    query.op = "replace" =>
        /\ ~Occurs(query.before, query.self, query.old) =>
              /\ IsFuture(query.res)
              /\ TreeNodes(heap, query.res.node) \subseteq query.made
              /\ query.eq
              /\ Shape(heap, query.res) = Shape(heap, Fut(query.self))
              /\ heap[query.res.node].original_args = heap[query.res.node].args
              /\ \A o \in Used(query.before) : heap[o] = query.before[o]
        /\ PyEq(query.before, Fut(query.self), query.old) =>
              query.res = query.new /\ query.made = {} /\ heap = query.before

\* A tree with a node beneath its root, in which old does not occur, has
\* been rebuilt.
C13_Witness ==
    /\ query.op = "replace"
    /\ ~Occurs(query.before, query.self, query.old)
    /\ Cardinality(TreeNodes(query.before, query.self)) >= 2
    /\ Cardinality(query.made) >= 2

----------------------------------------------------------------------------
\* C14: cast(cast(x, d), d) returns the very same object as cast(x, d); an
\* input that is already a field-producing deferred node is returned
\* unchanged, any other operand is wrapped in exactly one FieldCopy node.
C14_CastIdempotent ==
    query.op = "cast" =>
        /\ query.res2 = query.res
        /\ query.made = query.made1
        /\ IF IsFuture(query.x) /\ query.before[query.x.node].type \in FutureFieldTypes
           THEN query.res = query.x /\ query.made = {}
           ELSE /\ IsFuture(query.res) /\ query.made = {query.res.node}
                /\ heap[query.res.node].type = "FieldCopy"
                /\ IsOperand(query.x) => heap[query.res.node].args = <<query.x>>
        /\ \A o \in Used(query.before) : heap[o] = query.before[o]

\* A deferred node producing an array has been wrapped in a FieldCopy node,
\* which the second cast returned as it is.
C14_Witness ==
    /\ query.op = "cast" /\ IsFuture(query.x)
    /\ query.before[query.x.node].type \in FutureArrayTypes
    /\ query.res # query.x /\ query.res2 = query.res

----------------------------------------------------------------------------
\* The evaluation of node m in the trace tr returned (an output or the
\* absent result) after the argument loop, without a cache hit.
ReturnedUncachedIn(tr, m) ==
    /\ EnteredIn(tr, m) /\ AtIn(tr, "hit", m) = {}
    /\ AtIn(tr, "return_out", m) \cup AtIn(tr, "return_none", m) # {}

\* C15: in an evaluate call on a node that misses the cache and returns,
\* every deferred argument in args at entry is evaluated exactly once, in
\* argument order, with the id and force of the call, and nothing else is;
\* an argument that returns absent does not stop the arguments after it.
C15_EveryDeferredArgEvaluatedOnce ==
    [][IsCall' => \A m \in nodes : ReturnedUncachedIn(trace', m) =>
        /\ \A i \in DOMAIN args[m] :
              LET evs == {k \in AtIn(trace', "arg", m) : trace'[k].i = i}
              IN  IF IsFuture(args[m][i])
                  THEN /\ Cardinality(evs) = 1
                       /\ \A k \in evs :
                           /\ trace'[k].val = args[m][i]
                           /\ trace'[k + 1].ev = "call"
                           /\ trace'[k + 1].node = args[m][i].node
                           /\ \A c \in AtIn(trace', "call", m) :
                                 /\ trace'[k + 1].ok = trace'[c].ok
                                 /\ trace'[k + 1].val = trace'[c].val
                                 /\ c < k
                       /\ Cardinality(AtIn(trace', "call", args[m][i].node)) = 1
                  ELSE evs = {}
        /\ \A k1, k2 \in AtIn(trace', "arg", m) :
              k1 < k2 <=> trace'[k1].i < trace'[k2].i
        /\ \A k \in AtIn(trace', "absent", m) :
              \A j \in DOMAIN args[m] :
                  (j > trace'[k].i /\ IsFuture(args[m][j])) =>
                      \E k2 \in AtIn(trace', "arg", m) : trace'[k2].i = j /\ k2 > k
      ]_vars

\* The first deferred argument of a node returned absent and the second
\* was evaluated after it.
C15_Witness ==
    /\ IsCall
    /\ \E k \in Steps, k2 \in Steps :
        /\ trace[k].ev = "absent" /\ trace[k].i = 1
        /\ trace[k2].ev = "arg" /\ trace[k2].node = trace[k].node
        /\ trace[k2].i = 2 /\ k2 > k

----------------------------------------------------------------------------
Ancestors(m) == {p \in nodes : m \in Descendants(p)}

\* C16: when a deferred argument of a node returns absent, the evaluation
\* of that node invokes neither check_conditions nor enforce_conditions
\* nor operate on the node and stores nothing in its cache, and (no hook
\* raising in an argument after it) it returns absent; so does every
\* ancestor, up to the root.
C16_AbsentArgumentPropagates ==
    \A k \in Steps : trace[k].ev = "absent" =>
        \A m \in {trace[k].node} \cup Ancestors(trace[k].node) :
            /\ \A j \in Steps : trace[j].node = m =>
                   trace[j].ev \notin {"check", "enforce", "operate", "store", "return_out"}
            /\ (store_last[m] /\ last.id # NoId) => last_id[m] = NoId /\ last_out[m] = NoneV
            /\ last.res # Raised =>
                   /\ Cardinality(At("return_none", m)) = 1
                   /\ last.res = NoneV

\* The absent result of a node two levels below the root has gone up
\* through its parent to the root.
C16_Witness ==
    /\ IsCall /\ last.res = NoneV
    /\ \E k \in Steps : trace[k].ev = "absent" /\ trace[k].node # last.node

----------------------------------------------------------------------------
\* C17: operate on a node is invoked only after every deferred argument of
\* the node has been evaluated and replaced in args by its output (no
\* element of args is a deferred node when operate runs) and after the
\* layout gate has passed: enforce_conditions returned under force=True, or
\* check_conditions returned true under force=False.  A node's operate
\* never runs before the operate of one of its descendants in the call.
C17_OperateAfterArgsAndGate ==
    \A k \in Steps : trace[k].ev = "operate" =>
        LET m == trace[k].node
            gates == {g \in At("enforce", m) \cup At("check", m) : g < k}
        IN  /\ trace[k].ok
            /\ \A a \in At("arg", m) :
                   /\ a < k
                   /\ \E s \in At("subst", m) :
                          /\ trace[s].i = trace[a].i /\ a < s /\ s < k
                          /\ trace[s].val.kind = "field"
            /\ At("absent", m) = {}
            /\ Cardinality(gates) = 1
            /\ \A g \in gates :
                   /\ trace[g].ok
                   /\ \A c \in At("call", m) :
                          trace[g].ev = (IF trace[c].ok THEN "enforce" ELSE "check")
                   /\ \A a \in At("arg", m) \cup At("subst", m) : a < g
            /\ \A d \in Descendants(m) : \A j \in At("operate", d) : j < k

\* In an attempt, operate has run on the root after its check_conditions
\* held and after the operate of a node beneath it.
C17_Witness ==
    /\ last.op = "attempt"
    /\ \E k \in At("operate", last.node) :
        /\ \E g \in At("check", last.node) : g < k
        /\ \E d \in Descendants(last.node) : \E j \in At("operate", d) : j < k

----------------------------------------------------------------------------
\* The state evaluate works on, as the last call left it.
Current == [args |-> args, last_id |-> last_id, last_out |-> last_out,
            ready |-> ready, trace |-> <<>>]

\* C18: when operate or enforce_conditions raises at a node during
\* evaluate(id), the exception leaves the root's evaluate: no ancestor of
\* the node runs operate, stores or returns, neither the node nor an
\* ancestor holds id in its cache afterwards, and evaluate(id) on any of
\* them then runs the pipeline (gate and operate) instead of returning a
\* stored output.
C18_ExceptionLeavesNoCachedResult ==
    \A k \in Steps : trace[k].ev = "raise" =>
        LET m == trace[k].node
        IN  /\ last.res = Raised
            /\ k = Len(trace)
            /\ At("return_out", m) = {} /\ At("store", m) = {}
            /\ \A a \in Ancestors(m) : \A j \in Steps : trace[j].node = a =>
                   trace[j].ev \notin {"operate", "store", "return_out",
                                       "return_none", "return_cached"}
            /\ \A x \in {m} \cup Ancestors(m) :
                   /\ ~(store_last[x] /\ last.id # NoId /\ last_id[x] = last.id)
                   /\ LET r == evaluate(Current, x, last.id, TRUE, NoFail)
                      IN  /\ AtIn(r.S.trace, "return_cached", x) = {}
                          /\ AtIn(r.S.trace, "enforce", x) # {}
                          /\ AtIn(r.S.trace, "operate", x) # {}

\* operate or enforce_conditions raised beneath a caching root that was
\* called with an id, after the root had dropped an output stored earlier.
C18_Witness ==
    /\ last.res = Raised /\ last.id # NoId /\ store_last[last.node]
    /\ \E k \in Steps : trace[k].ev = "raise" /\ trace[k].node # last.node
                        /\ store_last[trace[k].node]
    /\ \E k \in At("clear", last.node) : trace[k].val.kind = "field"

----------------------------------------------------------------------------
\* The node whose original_args hold m.
Parent(m) == CHOOSE p \in nodes : m \in Children(p)
\* The call with trace tr on root r comes to node m: every node on the way
\* from r to m still holds the next one as a deferred argument in its args
\* (args as they are when the call starts) and misses its cache.
Live(tr, r, m) ==
    \A x \in ({m} \cup Ancestors(m)) \ {r} :
        /\ \E i \in DOMAIN args[Parent(x)] : args[Parent(x)][i] = Fut(x)
        /\ AtIn(tr, "hit", Parent(x)) = {}
ComputedCall(tr, r, res) == res.kind = "field" /\ AtIn(tr, "hit", r) = {}

\* C19 (as stated): a call on a root that returns an output without a cache
\* hit has invoked operate on every deferred node of the tree of
\* original_args that did not hit its cache (nor lies beneath a node that
\* did), also after earlier attempts returned absent.
C19_EveryNodeOperatedOnSuccess ==
    (IsCall /\ ComputedCall(trace, last.node, last.res)) =>
        \A m \in Subtree(last.node) :
            (\A x \in {m} \cup (Ancestors(m) \cap Subtree(last.node)) : At("hit", x) = {})
                => At("operate", m) # {}

\* C19 (amended): such a call has invoked operate on exactly the nodes it
\* comes to and that miss their cache.  It comes to a node only through
\* args: where an earlier call that returned absent or raised has left the
\* output of a subtree in its parent's args, no node of that subtree is
\* evaluated and that earlier output is the operand.
C19_LiveNodesOperatedStaleOutputsReused ==
    [][(IsCall' /\ ComputedCall(trace', last'.node, last'.res)) =>
        \A m \in Subtree(last'.node) :
            IF Live(trace', last'.node, m)
            THEN /\ EnteredIn(trace', m)
                 /\ (AtIn(trace', "hit", m) = {}) <=> (AtIn(trace', "operate", m) # {})
                 /\ \A i \in DOMAIN args[m] :
                        (args[m][i].kind = "field" /\ AtIn(trace', "hit", m) = {}) =>
                            /\ args[m][i].stamp < callNo'
                            /\ \E k \in AtIn(trace', "require_scales", m) :
                                   trace'[k].i = i /\ trace'[k].val = args[m][i]
            ELSE /\ ~EnteredIn(trace', m)
                 /\ AtIn(trace', "operate", m) = {}
      ]_vars

\* A call has returned an output computed from the output that an earlier
\* call left in the args of the root; the subtree was not evaluated again.
C19_Witness ==
    /\ IsCall /\ ComputedCall(trace, last.node, last.res)
    /\ \E k \in At("require_scales", last.node) :
           /\ trace[k].val.kind = "field" /\ trace[k].val.stamp < callNo
           /\ ~Entered(trace[k].val.node)

====
